---- MODULE Spec2Model ----
(***************************************************************************)
(* Radio Sweeper Studio: the audio post-processing pipeline.               *)
(*                                                                         *)
(*   - applyEffect and mixAudio (services/audioEffectsService.ts) are      *)
(*     modelled as functions of their inputs and of the outcomes of the    *)
(*     platform calls they await (decodeAudioData, startRendering);        *)
(*   - the per-take pipeline of the App component (processAudioForTake,    *)
(*     updateTakeState, handleGenerateClick) is modelled as a state        *)
(*     machine whose steps are the code's suspension points.               *)
(*                                                                         *)
(* Amplitudes are integers.  A volume v of the code (a number in [0,1],    *)
(* slider step 0.05) is the integer v * VolumeUnit, and a mixed sample is  *)
(* kept multiplied by VolumeUnit, so that the sums are exact.              *)
(* Times are kept in half frames of the decoding context's sample rate     *)
(* (every buffer of one mixAudio call is decoded by the same AudioContext  *)
(* and has that context's rate), so duration/2 is exact.                   *)
(***************************************************************************)
EXTENDS Integers, Sequences, FiniteSets, TLC

VARIABLES
    fx,                 \* the applyEffect call under study
    mx,                 \* the mixAudio call under study
    generationResults,  \* App state: a sequence of results, each [takes |-> a sequence of takes]
    runs,               \* the updateTakeState calls in flight
    runCount,           \* history: the number of updateTakeState calls so far
    lastSettled,        \* history: how the updateTakeState call that ended last ended
    epoch,              \* history: the number of handleGenerateClick calls so far
    gen,                \* the handleGenerateClick call in flight
    error,              \* App state: error
    isLoading,          \* App state: isLoading
    generationProgress, \* App state: generationProgress
    blobCache,          \* the presets cached by getTrackBlob and getSfxBlob
    crashed,            \* a state updater threw: React has unmounted the App
    revoked,            \* the object URLs passed to URL.revokeObjectURL so far
    store,              \* the blobCache objects of sfxService and backgroundTrackService
                        \* and the getSfxBlob / getTrackBlob calls made so far
    wav,                \* the audioBufferToWavBlob call under study
    live,               \* the generateSingleTake call under study and its live session
    dr                  \* the vocal-drop step of processAudioForTake under study

appVars == <<generationResults, runs, runCount, lastSettled, epoch, gen, error,
             isLoading, generationProgress, blobCache, crashed, revoked>>

vars == <<fx, mx, generationResults, runs, runCount, lastSettled, epoch, gen, error,
          isLoading, generationProgress, blobCache, crashed, revoked, store, wav, live, dr>>

\* the state of the services studied on their own
svcVars == <<store, wav, live, dr>>

(***************************************************************************)
(* Bounds of the model                                                     *)
(***************************************************************************)
MaxLen == 6
MaxChannels == 2
MaxLayers == 2
MaxRuns == 3
MaxGenerations == 2
MaxScripts == 2
MaxTakes == 1
MaxSfx == 1
MaxStoreCalls == 3

\* the audio chunks one live session delivers
MaxChunks == 3

\* the vocal drops applied to one take
MaxDrops == 3

(***************************************************************************)
(* Program constants                                                       *)
(***************************************************************************)
\* PITCH_UP_RATE = 1.25 = PitchUpNum / PitchUpDen
PitchUpNum == 5
PitchUpDen == 4
\* PITCH_DOWN_RATE = 0.8 = PitchDownNum / PitchDownDen
PitchDownNum == 4
PitchDownDen == 5
\* volumes are multiples of 0.05 = 1 / VolumeUnit
VolumeUnit == 20

EffectPreset ==
    {"None", "RadioBooth", "ConcertHall", "CosmicDelay", "Telephone",
     "RobotVoice", "PitchShiftUp", "PitchShiftDown"}

Timings == {"start", "middle", "end"}

Max(a, b) == IF a >= b THEN a ELSE b

Min(a, b) == IF a <= b THEN a ELSE b

\* Math.ceil(n / (num / den)) for n >= 0: the least integer k with k * num >= n * den
CeilDivRate(n, num, den) == (n * den + num - 1) \div num

(***************************************************************************)
(* Blobs and buffers                                                       *)
(*                                                                         *)
(* A Blob is an object: `id` is its identity.  `decodable` says whether    *)
(* decodeAudioData accepts its bytes; numberOfChannels, sampleRate and     *)
(* samples are what decodeAudioData yields for it.                         *)
(***************************************************************************)
NoBlob == [id |-> 0, decodable |-> FALSE, numberOfChannels |-> 0,
           sampleRate |-> 0, samples |-> <<>>, byteLength |-> 0]

InputBlob(id, decodable, ch, rate, samples) ==
    [id |-> id, decodable |-> decodable, numberOfChannels |-> ch,
     sampleRate |-> rate, samples |-> samples,
     byteLength |-> Len(samples) * ch * 2 + 44]

\* an AudioBuffer
AudioBufferOf(ch, rate, samples) ==
    [numberOfChannels |-> ch, sampleRate |-> rate, length |-> Len(samples),
     samples |-> samples]

NoBuffer == [numberOfChannels |-> 0, sampleRate |-> 0, length |-> 0, samples |-> <<>>]

\* audioContext.decodeAudioData(await blob.arrayBuffer()), when it resolves
DecodeAudioData(blob) ==
    AudioBufferOf(blob.numberOfChannels, blob.sampleRate, blob.samples)

\* the WAV file of a rendered buffer: a new Blob of
\* buffer.length * numOfChan * 2 + 44 bytes
WavByteLengthMono(buffer) == buffer.length * 2 + 44

WavByteLength(buffer) == buffer.length * buffer.numberOfChannels * 2 + 44

AudioBufferToWavBlob(newId, buffer) ==
    [id |-> newId, decodable |-> TRUE,
     numberOfChannels |-> buffer.numberOfChannels,
     sampleRate |-> buffer.sampleRate, samples |-> buffer.samples,
     byteLength |-> WavByteLength(buffer)]

\* the number of frames a WAV file of 16-bit samples declares
WavFrames(blob) == (blob.byteLength - 44) \div (2 * blob.numberOfChannels)

(***************************************************************************)
(* applyEffect (services/audioEffectsService.ts)                           *)
(***************************************************************************)
SampleRates == {24000, 48000}

\* the sample values of the input clips of the model: 1, 2, ..., len
Ramp(len) == [i \in 1..len |-> i]

\* renderLength: the decoded length, changed for the two pitch-shift presets
RenderLengthFloor(decodedBuffer, preset) ==
    IF preset = "PitchShiftUp"
    THEN (decodedBuffer.length * PitchUpDen) \div PitchUpNum
    ELSE IF preset = "PitchShiftDown"
    THEN (decodedBuffer.length * PitchDownDen) \div PitchDownNum
    ELSE decodedBuffer.length

RenderLength(decodedBuffer, preset) ==
    IF preset = "PitchShiftUp"
    THEN CeilDivRate(decodedBuffer.length, PitchUpNum, PitchUpDen)
    ELSE IF preset = "PitchShiftDown"
    THEN CeilDivRate(decodedBuffer.length, PitchDownNum, PitchDownDen)
    ELSE decodedBuffer.length

\* the frame of the source buffer played at output frame i (1-based) by a
\* buffer source whose playbackRate is num/den; 0 when the source has ended
PlaybackFrame(decodedBuffer, i, num, den) ==
    LET j == ((i - 1) * num) \div den + 1
    IN IF j <= decodedBuffer.length THEN decodedBuffer.samples[j] ELSE 0

\* What the audio graph of `preset` delivers at output frame i.  A sample is
\* <<preset, source sample, noise>>: the graph that shaped it, the source
\* sample it was fed and, for the two convolution presets, the Math.random
\* draws of the impulse response.
RenderedSample(decodedBuffer, preset, i, noise) ==
    LET dry == IF i <= decodedBuffer.length THEN decodedBuffer.samples[i] ELSE 0
    IN CASE preset = "PitchShiftUp" ->
              <<preset, PlaybackFrame(decodedBuffer, i, PitchUpNum, PitchUpDen), 0>>
         [] preset = "PitchShiftDown" ->
              <<preset, PlaybackFrame(decodedBuffer, i, PitchDownNum, PitchDownDen), 0>>
         [] preset \in {"RadioBooth", "ConcertHall"} -> <<preset, dry, noise>>
         [] OTHER -> <<preset, dry, 0>>

\* the channel count of the OfflineAudioContext, hence of the buffer it
\* renders: the destination mixes the graph's output (two channels after a
\* convolver with a two-channel impulse) to this count
OfflineChannelsOfImpulse(decodedBuffer, preset) ==
    IF preset \in {"RadioBooth", "ConcertHall"} THEN 2
    ELSE decodedBuffer.numberOfChannels

OfflineChannels(decodedBuffer, preset) == decodedBuffer.numberOfChannels

\* offlineContext.startRendering(): the OfflineAudioContext has the decoded
\* buffer's channel count and sample rate and renderLength frames
RenderEffect(decodedBuffer, preset, noise) ==
    AudioBufferOf(OfflineChannels(decodedBuffer, preset), decodedBuffer.sampleRate,
                  [i \in 1..RenderLength(decodedBuffer, preset) |->
                      RenderedSample(decodedBuffer, preset, i, noise)])

\* The outcome of applyEffect(audioBlob, preset).  renderOk: whether
\* startRendering resolves; noise: the Math.random draws; newId: the identity
\* of the Blob that audioBufferToWavBlob creates.
ApplyEffectAlwaysEncodes(audioBlob, preset, renderOk, noise, newId) ==
    IF ~audioBlob.decodable
    THEN [status |-> "rejected", blob |-> NoBlob, contextsOpened |-> 1,
          contextsClosed |-> 0, decodeCalls |-> 1, encodeCalls |-> 0]
    ELSE IF ~renderOk
    THEN [status |-> "rejected", blob |-> NoBlob, contextsOpened |-> 1,
          contextsClosed |-> 1, decodeCalls |-> 1, encodeCalls |-> 0]
    ELSE [status |-> "resolved",
          blob |-> AudioBufferToWavBlob(newId,
                      RenderEffect(DecodeAudioData(audioBlob), preset, noise)),
          contextsOpened |-> 1, contextsClosed |-> 1, decodeCalls |-> 1,
          encodeCalls |-> 1]

ApplyEffect(audioBlob, preset, renderOk, noise, newId) ==
    IF preset = "None"
    THEN [status |-> "resolved", blob |-> audioBlob, contextsOpened |-> 0,
          contextsClosed |-> 0, decodeCalls |-> 0, encodeCalls |-> 0]
    ELSE IF ~audioBlob.decodable
    THEN [status |-> "rejected", blob |-> NoBlob, contextsOpened |-> 1,
          contextsClosed |-> 0, decodeCalls |-> 1, encodeCalls |-> 0]
    ELSE IF ~renderOk
    THEN [status |-> "rejected", blob |-> NoBlob, contextsOpened |-> 1,
          contextsClosed |-> 1, decodeCalls |-> 1, encodeCalls |-> 0]
    ELSE [status |-> "resolved",
          blob |-> AudioBufferToWavBlob(newId,
                      RenderEffect(DecodeAudioData(audioBlob), preset, noise)),
          contextsOpened |-> 1, contextsClosed |-> 1, decodeCalls |-> 1,
          encodeCalls |-> 1]

(***************************************************************************)
(* mixAudio (services/audioEffectsService.ts)                              *)
(*                                                                         *)
(* A layer is [blob, volume, timing]; the background track is              *)
(* [present, blob, volume].                                                *)
(***************************************************************************)
NoTrack == [present |-> FALSE, blob |-> NoBlob, volume |-> 0]

\* buffer.duration = length / sampleRate, in half frames
Duration2(buffer) == 2 * buffer.length

\* startTime of an SFX or vocal-drop source, in half frames
StartTime2(voiceBuffer, layerBuffer, timing) ==
    CASE timing = "start" -> 0
      [] timing = "middle" -> (Duration2(voiceBuffer) \div 2) - (Duration2(layerBuffer) \div 2)
      [] timing = "end" -> Duration2(voiceBuffer) - Duration2(layerBuffer)

\* source.start(Math.max(0, startTime))
StartWhenUnclamped(voiceBuffer, layerBuffer, timing) ==
    StartTime2(voiceBuffer, layerBuffer, timing)

StartWhen(voiceBuffer, layerBuffer, timing) ==
    Max(0, StartTime2(voiceBuffer, layerBuffer, timing))

\* The sources connected to the offline context's destination by one loop of
\* mixAudio over `layers`: a layer whose decodeAudioData rejects is caught
\* and leaves no source.
RECURSIVE LayerSourcesAbortOnFailure(_, _)
LayerSourcesAbortOnFailure(voiceBuffer, layers) ==
    IF layers = <<>> THEN <<>>
    ELSE LET l == Head(layers)
         IN IF ~l.blob.decodable THEN <<>>
            ELSE <<[samples |-> DecodeAudioData(l.blob).samples, gain |-> l.volume,
                    loop |-> FALSE,
                    when |-> StartWhen(voiceBuffer, DecodeAudioData(l.blob), l.timing)]>>
                 \o LayerSourcesAbortOnFailure(voiceBuffer, Tail(layers))

RECURSIVE LayerSources(_, _)
LayerSources(voiceBuffer, layers) ==
    IF layers = <<>> THEN <<>>
    ELSE LET l == Head(layers)
             rest == LayerSources(voiceBuffer, Tail(layers))
         IN IF ~l.blob.decodable THEN rest
            ELSE <<[samples |-> DecodeAudioData(l.blob).samples, gain |-> l.volume,
                    loop |-> FALSE,
                    when |-> StartWhen(voiceBuffer, DecodeAudioData(l.blob), l.timing)]>>
                 \o rest

\* the looping source of the background track, when it is given and decodes
BackgroundSources(backgroundTrack) ==
    IF backgroundTrack.present /\ backgroundTrack.blob.decodable
    THEN <<[samples |-> DecodeAudioData(backgroundTrack.blob).samples,
            gain |-> backgroundTrack.volume, loop |-> TRUE, when |-> 0]>>
    ELSE <<>>

\* the first output frame (0-based) at or after a start time in half frames
StartFrame(when) == (when + 1) \div 2

\* what one source adds to output frame i (1-based), times VolumeUnit
Contribution(source, i) ==
    IF source.loop
    THEN source.gain * source.samples[((i - 1) % Len(source.samples)) + 1]
    ELSE LET j == i - StartFrame(source.when)
         IN IF j >= 1 /\ j <= Len(source.samples)
            THEN source.gain * source.samples[j]
            ELSE 0

RECURSIVE SumContributions(_, _)
SumContributions(sources, i) ==
    IF sources = <<>> THEN 0
    ELSE Contribution(Head(sources), i) + SumContributions(Tail(sources), i)

\* the frames rendered by an OfflineAudioContext of `length` frames
RECURSIVE OfflineLengthLongestSource(_, _)
OfflineLengthLongestSource(voiceBuffer, sources) ==
    IF sources = <<>> THEN voiceBuffer.length
    ELSE Max(Len(Head(sources).samples),
             OfflineLengthLongestSource(voiceBuffer, Tail(sources)))

OfflineLength(voiceBuffer, sources) == voiceBuffer.length

\* offlineContext.startRendering(): the voice, connected to the destination
\* without a gain node, plus every source through its gain node
RenderMixNormalized(voiceBuffer, sources) ==
    AudioBufferOf(voiceBuffer.numberOfChannels, voiceBuffer.sampleRate,
        [i \in 1..OfflineLength(voiceBuffer, sources) |->
            Max(-VolumeUnit, Min(VolumeUnit,
                VolumeUnit * voiceBuffer.samples[i] + SumContributions(sources, i)))])

RenderMix(voiceBuffer, sources) ==
    AudioBufferOf(voiceBuffer.numberOfChannels, voiceBuffer.sampleRate,
        [i \in 1..OfflineLength(voiceBuffer, sources) |->
            (IF i <= voiceBuffer.length THEN VolumeUnit * voiceBuffer.samples[i] ELSE 0)
            + SumContributions(sources, i)])

\* The outcome of mixAudio.  renderOk: whether startRendering resolves;
\* newId: the identity of the Blob that audioBufferToWavBlob creates.
MixAudio(voiceBlob, backgroundTrack, sfxToApply, vocalDropsToApply, renderOk, newId) ==
    IF ~voiceBlob.decodable
    THEN [status |-> "rejected", blob |-> NoBlob, rendered |-> NoBuffer,
          sources |-> <<>>, contextsOpened |-> 1, contextsClosed |-> 0]
    ELSE LET voiceBuffer == DecodeAudioData(voiceBlob)
             sources == BackgroundSources(backgroundTrack)
                        \o LayerSources(voiceBuffer, sfxToApply)
                        \o LayerSources(voiceBuffer, vocalDropsToApply)
         IN IF ~renderOk
            THEN [status |-> "rejected", blob |-> NoBlob, rendered |-> NoBuffer,
                  sources |-> sources, contextsOpened |-> 1, contextsClosed |-> 0]
            ELSE [status |-> "resolved",
                  blob |-> AudioBufferToWavBlob(newId, RenderMix(voiceBuffer, sources)),
                  rendered |-> RenderMix(voiceBuffer, sources),
                  sources |-> sources, contextsOpened |-> 1, contextsClosed |-> 1]

(***************************************************************************)
(* The App component (App.tsx): takes, their pipeline runs, generation     *)
(*                                                                         *)
(* At this level a Blob is a record of what it was made from:              *)
(*   voice  - the generated recording it carries, <<epoch, result, take>>  *)
(*   effect - the effect preset rendered into it ("None" when raw)         *)
(*   mix    - the layers handed to the mixAudio call that made it          *)
(*   run    - which updateTakeState call of that recording's take made it  *)
(*            (its number among the calls for that take; 0: none, the blob *)
(*            is the generated recording itself)                           *)
(***************************************************************************)
NoMix == [mixed |-> FALSE, track |-> [present |-> FALSE, source |-> "None", volume |-> 0],
          sfx |-> <<>>, drops |-> <<>>]

GeneratedBlob(e, ri, ti) ==
    [voice |-> <<e, ri, ti>>, effect |-> "None", mix |-> NoMix, run |-> 0]

\* applyEffect resolved: the same blob for None, else a new blob
EffectBlob(audioBlob, preset, run) ==
    IF preset = "None" THEN audioBlob
    ELSE [audioBlob EXCEPT !.effect = preset, !.run = run]

\* mixAudio resolved: always a new blob
MixBlob(voiceBlob, backgroundTrack, sfxToApply, vocalDropsToApply, run) ==
    [voiceBlob EXCEPT !.run = run,
                      !.mix = [mixed |-> TRUE, track |-> backgroundTrack,
                               sfx |-> sfxToApply, drops |-> vocalDropsToApply]]

\* the presets the take controls of the model offer
AppEffects == {"None", "RadioBooth"}

AppTracks == {"None", "SynthWhoosh"}

AppSfx == {"None", "LaserZap"}

ErrProcess == "Failed to apply audio changes."

ErrGenerate == "An unknown error occurred during generation."

NoError == "null"

\* URL.createObjectURL: the URL made for the original blob of a take
\* (run 0) or for a blob committed by the run `run` of the take `voice`
ObjectUrl(voice, run, kind) == <<voice, run, kind>>

\* the take built by handleGenerateClick for one generated blob
NewTake(blob) ==
    [originalBlob |-> blob, processedBlob |-> blob, finalBlob |-> blob,
     originalUrl |-> ObjectUrl(blob.voice, 0, "original"),
     processedUrl |-> ObjectUrl(blob.voice, 0, "original"),
     finalUrl |-> ObjectUrl(blob.voice, 0, "original"),
     isProcessing |-> FALSE, selectedEffect |-> "None", selectedTrack |-> "None",
     customTrackFile |-> "null", mixVolume |-> 10, appliedSfx |-> <<>>,
     appliedVocalDrops |-> <<>>,
     requested |-> 0,      \* history: the number of updateTakeState calls for this take
     requestedEnd |-> "none"]  \* history: how the latest of them ended

NoTake == NewTake(GeneratedBlob(0, 0, 0))

NoSettled == [how |-> "none", voice |-> <<0, 0, 0>>, id |-> 0]

NoGen == [pc |-> "idle", i |-> 0, n |-> 0, numberOfTakes |-> 0]

AppInit ==
    /\ generationResults = <<>>
    /\ runs = {}
    /\ runCount = 0
    /\ lastSettled = NoSettled
    /\ epoch = 0
    /\ gen = NoGen
    /\ error = NoError
    /\ isLoading = FALSE
    /\ generationProgress = "null"
    /\ blobCache = {}
    /\ crashed = FALSE
    /\ revoked = {}

\* a take object that is no longer in the result set: nothing reads or writes
\* its buffers and flags any more, a run in flight still reads its settings
Orphan(take) ==
    [take EXCEPT !.processedBlob = take.originalBlob, !.finalBlob = take.originalBlob,
                 !.processedUrl = take.originalUrl, !.finalUrl = take.originalUrl,
                 !.isProcessing = TRUE, !.requested = 0, !.requestedEnd = "none"]

\* the URLs the cleanup of the effect on [generationResults, vocalDrops]
\* revokes: those of every take of the result set it closed over
TakeUrls(take) == {take.originalUrl, take.processedUrl, take.finalUrl}

ResultUrls(results) ==
    UNION {TakeUrls(results[ri].takes[ti]) :
              <<ri, ti>> \in {p \in (1..Len(results)) \X (1..MaxTakes) :
                                 p[2] <= Len(results[p[1]].takes)}}

HasTake(results, ri, ti) ==
    /\ ri \in 1..Len(results)
    /\ ti \in 1..Len(results[ri].takes)

\* the take object a run works on: the take of the current result set, or
\* the object the run still holds after its result set was discarded
TakeOf(run) ==
    IF run.orphan = NoTake
    THEN generationResults[run.ri].takes[run.ti]
    ELSE run.orphan

(***************************************************************************)
(* processAudioForTake.  The take is read when each step runs, not when    *)
(* the run was requested.  A step whose promise is already settled (effect *)
(* None, a cached preset, no preset to fetch) continues in the same task;  *)
(* the pc of a run names the call it is suspended in.                      *)
(***************************************************************************)
\* Step 4 and 5: the vocal drops are looked up and mixAudio is called (the
\* takes of this level apply no vocal drop; the lookup is VocalDropsToApply)
StepMix(run, take) == [run EXCEPT !.pc = "mix"]

\* Step 3: the SFX presets other than None are resolved with getSfxBlob
SfxToResolveAll(take) == take.appliedSfx

SfxToResolve(take) == SelectSeq(take.appliedSfx, LAMBDA sfx : sfx.preset # "None")

StepSfx(run, take, cache) ==
    LET wanted == SfxToResolve(take)
        r == [run EXCEPT !.sfxToApply = wanted]
    IN IF \A k \in 1..Len(wanted) : wanted[k].preset \in cache
       THEN StepMix(r, take)
       ELSE [r EXCEPT !.pc = "sfx"]

\* Step 2: the background track is the custom file, or the preset resolved
\* with getTrackBlob, or absent
StepTrack(run, take, cache) ==
    IF take.selectedTrack = "custom" /\ take.customTrackFile # "null"
    THEN StepSfx([run EXCEPT !.backgroundTrack =
                     [present |-> TRUE, source |-> "custom", volume |-> take.mixVolume]],
                 take, cache)
    ELSE IF take.selectedTrack # "None" /\ take.selectedTrack # "custom"
    THEN IF take.selectedTrack \in cache
         THEN StepSfx([run EXCEPT !.backgroundTrack =
                          [present |-> TRUE, source |-> take.selectedTrack,
                           volume |-> take.mixVolume]],
                      take, cache)
         ELSE [run EXCEPT !.pc = "track", !.trackPreset = take.selectedTrack]
    ELSE StepSfx(run, take, cache)

\* Step 1: applyEffect(take.originalBlob, take.selectedEffect) is called
StepEffect(run, take, cache) ==
    IF take.selectedEffect = "None"
    THEN StepTrack([run EXCEPT !.processedBlob = EffectBlob(take.originalBlob, "None", run.id)],
                   take, cache)
    ELSE [run EXCEPT !.pc = "effect", !.audioBlob = take.originalBlob,
                     !.preset = take.selectedEffect]

NewRun(id, ri, ti, take) ==
    [id |-> id, ri |-> ri, ti |-> ti, voice |-> take.originalBlob.voice,
     orphan |-> NoTake, pc |-> "start",
     audioBlob |-> NoTake.originalBlob, preset |-> "None",
     processedBlob |-> NoTake.originalBlob, trackPreset |-> "None",
     backgroundTrack |-> NoMix.track, sfxToApply |-> <<>>, vocalDropsToApply |-> <<>>]

\* what processAudioForTake returns
ProcessedResult(run) ==
    [ok |-> TRUE, hasProcessed |-> TRUE, processedBlob |-> run.processedBlob,
     hasFinal |-> TRUE,
     finalBlob |-> MixBlob(run.processedBlob, run.backgroundTrack, run.sfxToApply,
                           run.vocalDropsToApply, run.id)]

FailedResultKeepsEffect(run) ==
    [ok |-> FALSE, hasProcessed |-> (run.pc \in {"track", "sfx", "mix"}),
     processedBlob |-> run.processedBlob, hasFinal |-> FALSE,
     finalBlob |-> run.processedBlob]

\* the catch of processAudioForTake returns {}
FailedResult(run) ==
    [ok |-> FALSE, hasProcessed |-> FALSE, processedBlob |-> run.processedBlob,
     hasFinal |-> FALSE, finalBlob |-> run.processedBlob]

(***************************************************************************)
(* The preset stores (services/sfxService.ts, backgroundTrackService)      *)
(*                                                                         *)
(* A preset table maps a preset to its base64 string; an id that is not a  *)
(* key of the table reads as "undefined".  A Blob of a store is            *)
(* [id, bytes, from]: its identity, the base64 string its bytes were       *)
(* decoded from and the <<service, preset>> whose call built it.           *)
(***************************************************************************)
Services == {"sfx", "track"}

\* the preset ids of the calls of the model; "Unknown" is in no table
PresetIds == {"None", "LaserZap", "SynthWhoosh", "Unknown"}

\* PRESET_SFX[preset]
PresetSfx(preset) ==
    CASE preset = "None" -> ""
      [] preset \in {"LaserZap", "AirHorn", "RecordScratch", "Explosion"} ->
            "UklGRiYAAABXQVZF"
      [] OTHER -> "undefined"

\* PRESET_TRACKS[preset]
PresetTracks(preset) ==
    CASE preset = "None" -> ""
      [] preset \in {"SynthWhoosh", "NewsJingle", "RockRiff"} -> "UklGRiQAAABXQVZF"
      [] OTHER -> "undefined"

PresetTable(service, preset) ==
    IF service = "sfx" THEN PresetSfx(preset) ELSE PresetTracks(preset)

\* blobCache[preset] of a preset never stored
Undefined == [id |-> 0, bytes |-> "undefined", from |-> <<"none", "none">>]

StoreInit ==
    [cache |-> [service \in Services |-> [preset \in PresetIds |-> Undefined]],
     calls |-> <<>>,
     blobs |-> 0]

(***************************************************************************)
(* audioBufferToWavBlob, statement by statement.  An amplitude is a        *)
(* fraction <<numerator, denominator>>.  writes holds, in order, every     *)
(* field written into view: [pos, size, value, channel, frame]; reads      *)
(* holds every <<channel, index>> read from the channel arrays.            *)
(***************************************************************************)
NoWavBuffer == [numberOfChannels |-> 0, sampleRate |-> 0, length |-> 0,
                channelData |-> <<>>]

WavIdle == [pc |-> "idle", buffer |-> NoWavBuffer, length |-> 0, pos |-> 0,
            offset |-> 0, i |-> 0, writes |-> <<>>, reads |-> <<>>]

(***************************************************************************)
(* generateSingleTake (services/geminiService.ts).  session is the state   *)
(* of the live session; audioChunks holds the decoded chunks in arrival    *)
(* order; promise is the promise the call returned.                        *)
(***************************************************************************)
Pending == [state |-> "pending", value |-> <<>>, reason |-> "none"]

LiveIdle == [session |-> "none", audioChunks |-> <<>>, promise |-> Pending,
             closeCalled |-> FALSE]

(***************************************************************************)
(* Step 4 of processAudioForTake: the vocal drops of a take are looked up  *)
(* in the library.  An entry of the library is [id, blob], with NoBlob for *)
(* blob: null.                                                             *)
(***************************************************************************)
DrIdle == [pc |-> "idle", vocalDrops |-> <<>>, appliedVocalDrops |-> <<>>,
           vocalDropsToApply |-> <<>>]

ServicesInit == store = StoreInit /\ wav = WavIdle /\ live = LiveIdle /\ dr = DrIdle

NoOutcome == [status |-> "none", blob |-> NoBlob, contextsOpened |-> 0,
              contextsClosed |-> 0, decodeCalls |-> 0, encodeCalls |-> 0]

(***************************************************************************)
(* The inputs of the mixAudio calls of the model.  Every clip of one call  *)
(* is decoded by the same AudioContext, so it has the voice's sample rate. *)
(***************************************************************************)
VoiceClips ==
    {[numberOfChannels |-> 1, sampleRate |-> 24000, samples |-> <<3, -2>>],
     [numberOfChannels |-> 2, sampleRate |-> 48000, samples |-> <<1, 2, -3>>]}

\* a clip shorter than every voice and one longer than every voice
LayerClips ==
    {[numberOfChannels |-> 1, samples |-> <<4>>],
     [numberOfChannels |-> 2, samples |-> <<1, -2, 3, 5>>]}

\* a loop shorter than the longest voice
TrackClips ==
    {[numberOfChannels |-> 2, samples |-> <<5, 7>>]}

Volumes == {10, 14}

UndecodableBlob(id) == InputBlob(id, FALSE, 0, 0, <<>>)

ClipBlob(id, clip, rate) ==
    InputBlob(id, TRUE, clip.numberOfChannels, rate, clip.samples)

VoiceBlobs ==
    {UndecodableBlob(1)}
    \cup {ClipBlob(1, c, c.sampleRate) : c \in VoiceClips}

TracksFor(rate) ==
    {NoTrack, [present |-> TRUE, blob |-> UndecodableBlob(2), volume |-> 10]}
    \cup {[present |-> TRUE, blob |-> ClipBlob(2, c, rate), volume |-> v] :
             c \in TrackClips, v \in Volumes}

LayersFor(rate) ==
    {[blob |-> UndecodableBlob(3), volume |-> 14, timing |-> "start"]}
    \cup {[blob |-> ClipBlob(3, c, rate), volume |-> v, timing |-> t] :
             c \in LayerClips, v \in Volumes, t \in Timings}

SeqsUpTo(S, n) == UNION {[1..k -> S] : k \in 0..n}

Noises == {1, 2}

FxIdle == [pc |-> "idle", audioBlob |-> NoBlob, preset |-> "None", out |-> NoOutcome]

MxIdle == [pc |-> "idle", voiceBlob |-> NoBlob, backgroundTrack |-> NoTrack,
           sfxToApply |-> <<>>, vocalDropsToApply |-> <<>>, renderOk |-> FALSE,
           out |-> NoOutcome]

\* one call of applyEffect, from the call to the settling of its promise
ApplyEffectCall ==
    /\ fx.pc = "idle"
    /\ \E decodable \in BOOLEAN, ch \in 1..MaxChannels, rate \in SampleRates,
          len \in 1..MaxLen, preset \in EffectPreset, renderOk \in BOOLEAN,
          noise \in Noises :
          LET audioBlob == InputBlob(1, decodable, ch, rate, Ramp(len))
          IN fx' = [pc |-> "settled", audioBlob |-> audioBlob, preset |-> preset,
                    out |-> ApplyEffect(audioBlob, preset, renderOk, noise, 2)]
    /\ UNCHANGED mx
    /\ UNCHANGED <<appVars, svcVars>>

InitEffect == fx = FxIdle /\ mx = MxIdle /\ AppInit /\ ServicesInit

\* one call of mixAudio, from the call to the settling of its promise
MixAudioCall ==
    /\ mx.pc = "idle"
    /\ \E voiceBlob \in VoiceBlobs, renderOk \in BOOLEAN :
       \E backgroundTrack \in TracksFor(voiceBlob.sampleRate),
          sfxToApply \in SeqsUpTo(LayersFor(voiceBlob.sampleRate), MaxLayers) :
       \E vocalDropsToApply \in
              SeqsUpTo(LayersFor(voiceBlob.sampleRate), MaxLayers - Len(sfxToApply)) :
          mx' = [pc |-> "settled", voiceBlob |-> voiceBlob,
                 backgroundTrack |-> backgroundTrack, sfxToApply |-> sfxToApply,
                 vocalDropsToApply |-> vocalDropsToApply, renderOk |-> renderOk,
                 out |-> MixAudio(voiceBlob, backgroundTrack, sfxToApply,
                                  vocalDropsToApply, renderOk, 4)]
    /\ UNCHANGED fx
    /\ UNCHANGED <<appVars, svcVars>>

InitMix == fx = FxIdle /\ mx = MxIdle /\ AppInit /\ ServicesInit

NextMix == MixAudioCall

SpecMix == InitMix /\ [][NextMix]_vars

\* a second call of applyEffect with the clip and the preset of the first
ApplyEffectAgain ==
    /\ fx.pc = "settled"
    /\ \E renderOk \in BOOLEAN, noise \in Noises :
          fx' = [fx EXCEPT !.out = ApplyEffect(fx.audioBlob, fx.preset, renderOk,
                                               noise, 2)]
    /\ UNCHANGED mx
    /\ UNCHANGED <<appVars, svcVars>>

NextEffect == ApplyEffectCall \/ ApplyEffectAgain

SpecEffect == InitEffect /\ [][NextEffect]_vars

(***************************************************************************)
(* updateTakeState                                                         *)
(***************************************************************************)
\* Object.assign(take, { ...newTakeSettings, isProcessing: true })
AssignSettings(take, newTakeSettings, id) ==
    [f \in DOMAIN take |->
        IF f = "isProcessing" THEN TRUE
        ELSE IF f = "requested" THEN id
        ELSE IF f = "requestedEnd" THEN "pending"
        ELSE IF f \in DOMAIN newTakeSettings THEN newTakeSettings[f]
        ELSE take[f]]

\* the settings the controls of a take can send (a select fires onChange
\* only for another value than the one shown)
TakeSettings(take) ==
    {[selectedEffect |-> e] : e \in AppEffects \ {take.selectedEffect}}
    \cup {[selectedTrack |-> t, customTrackFile |-> "null"] :
             t \in AppTracks \ {take.selectedTrack}}
    \cup {[appliedSfx |-> Append(take.appliedSfx,
                            [preset |-> "LaserZap", volume |-> 14, timing |-> "start"])] :
             x \in {y \in {1} : Len(take.appliedSfx) < MaxSfx}}
    \cup {[appliedSfx |-> [take.appliedSfx EXCEPT ![k].preset = q]] :
             <<k, q>> \in {kq \in (1..Len(take.appliedSfx)) \X AppSfx :
                              kq[2] # take.appliedSfx[kq[1]].preset}}

\* the take controls are rendered when nothing is loading and no error is shown
TakeControlsShown == ~crashed /\ ~isLoading /\ error = NoError

ReplaceTake(results, ri, ti, take) ==
    [results EXCEPT ![ri].takes[ti] = take]

\* the state updater that ends updateTakeState, applied to the take now at
\* [resultIndex][takeIndex]
CommitResult(take, result) ==
    [take EXCEPT !.processedBlob = IF result.hasProcessed THEN result.processedBlob ELSE @,
                 !.finalBlob = IF result.hasFinal THEN result.finalBlob ELSE @,
                 !.isProcessing = FALSE]

\* the URLs the updater revokes before it assigns new ones
UpdaterRevokes(take) ==
    (IF take.processedUrl # take.originalUrl THEN {take.processedUrl} ELSE {})
    \cup (IF take.finalUrl # take.processedUrl THEN {take.finalUrl} ELSE {})

\* the URLs the updater creates for the blobs of the result
CommitUrls(take, result, run) ==
    [take EXCEPT !.processedUrl = IF result.hasProcessed
                                  THEN ObjectUrl(run.voice, run.id, "processed") ELSE @,
                 !.finalUrl = IF result.hasFinal
                              THEN ObjectUrl(run.voice, run.id, "final") ELSE @]

\* history: the take records how its latest updateTakeState call ended
NoteEnd(take, run, how) ==
    IF run.voice = take.originalBlob.voice /\ run.id = take.requested
    THEN [take EXCEPT !.requestedEnd = how]
    ELSE take

\* the end of updateTakeState for `run`: the updater throws when the result
\* set no longer has a take at the run's indices
Settle(run, result, how) ==
    /\ runs' = runs \ {run}
    /\ lastSettled' = [how |-> how, voice |-> run.voice, id |-> run.id]
    /\ IF HasTake(generationResults, run.ri, run.ti)
       THEN /\ generationResults' =
                  ReplaceTake(generationResults, run.ri, run.ti,
                      NoteEnd(CommitUrls(CommitResult(generationResults[run.ri].takes[run.ti],
                                                      result),
                                         result, run),
                              run, how))
            /\ revoked' = revoked
                           \cup UpdaterRevokes(generationResults[run.ri].takes[run.ti])
                           \cup ResultUrls(generationResults')
            /\ UNCHANGED crashed
       ELSE /\ crashed' = TRUE
            /\ UNCHANGED <<generationResults, revoked>>

\* the catch of processAudioForTake, then the end of updateTakeState
Fail(run, how) ==
    /\ error' = ErrProcess
    /\ Settle(run, FailedResult(run), how)
    /\ UNCHANGED <<runCount, epoch, gen, isLoading, generationProgress, blobCache>>

Continue(run, next) ==
    /\ runs' = (runs \ {run}) \cup {next}
    /\ UNCHANGED <<generationResults, runCount, lastSettled, epoch, gen, error, isLoading,
                   generationProgress, crashed, revoked>>

UpdateTakeState(ri, ti) ==
    /\ TakeControlsShown
    /\ HasTake(generationResults, ri, ti)
    /\ ~generationResults[ri].takes[ti].isProcessing
    /\ runCount < MaxRuns
    /\ \E newTakeSettings \in TakeSettings(generationResults[ri].takes[ti]) :
          LET id == generationResults[ri].takes[ti].requested + 1
              take == AssignSettings(generationResults[ri].takes[ti], newTakeSettings, id)
          IN /\ generationResults' = ReplaceTake(generationResults, ri, ti, take)
             /\ runs' = runs \cup {StepEffect(NewRun(id, ri, ti, take), take, blobCache)}
    /\ runCount' = runCount + 1
    /\ revoked' = revoked \cup ResultUrls(generationResults')
    /\ UNCHANGED <<lastSettled, epoch, gen, error, isLoading, generationProgress, blobCache, crashed>>
    /\ UNCHANGED <<fx, mx, svcVars>>

\* applyEffect settles
EffectSettled(run) ==
    /\ ~crashed
    /\ run.pc = "effect"
    /\ \/ /\ Continue(run, StepTrack([run EXCEPT !.processedBlob =
                                        EffectBlob(run.audioBlob, run.preset, run.id)],
                                     TakeOf(run), blobCache))
          /\ UNCHANGED blobCache
       \/ Fail(run, "failedEffect")
    /\ UNCHANGED <<fx, mx, svcVars>>

\* getTrackBlob settles
TrackSettled(run) ==
    /\ ~crashed
    /\ run.pc = "track"
    /\ \/ /\ blobCache' = blobCache \cup {run.trackPreset}
          /\ Continue(run, StepSfx([run EXCEPT !.backgroundTrack =
                                      [present |-> TRUE, source |-> run.trackPreset,
                                       volume |-> TakeOf(run).mixVolume]],
                                   TakeOf(run), blobCache \cup {run.trackPreset}))
       \/ Fail(run, "failedTrack")
    /\ UNCHANGED <<fx, mx, svcVars>>

\* Promise.all over the getSfxBlob calls settles
SfxSettled(run) ==
    /\ ~crashed
    /\ run.pc = "sfx"
    /\ \/ /\ blobCache' = blobCache \cup {run.sfxToApply[k].preset : k \in 1..Len(run.sfxToApply)}
          /\ Continue(run, StepMix(run, TakeOf(run)))
       \/ Fail(run, "failedSfx")
    /\ UNCHANGED <<fx, mx, svcVars>>

\* mixAudio settles
MixSettled(run) ==
    /\ ~crashed
    /\ run.pc = "mix"
    /\ \/ /\ Settle(run, ProcessedResult(run), "committed")
          /\ UNCHANGED <<runCount, epoch, gen, error, isLoading, generationProgress,
                         blobCache>>
       \/ Fail(run, "failedMix")
    /\ UNCHANGED <<fx, mx, svcVars>>

(***************************************************************************)
(* handleGenerateClick                                                     *)
(***************************************************************************)
Progress(i, n) == <<"Generating", i, "of", n>>

\* the click: n non-empty scripts, numberOfTakes takes for each
GenerateClick(n, numberOfTakes) ==
    /\ ~crashed
    /\ ~isLoading
    /\ epoch < MaxGenerations
    /\ isLoading' = TRUE
    /\ error' = NoError
    /\ generationResults' = <<>>
    /\ runs' = {[r EXCEPT !.orphan = Orphan(TakeOf(r))] : r \in runs}
    /\ epoch' = epoch + 1
    /\ gen' = [pc |-> "generating", i |-> 1, n |-> n, numberOfTakes |-> numberOfTakes]
    /\ generationProgress' = Progress(1, n)
    /\ revoked' = revoked \cup ResultUrls(generationResults)
    /\ UNCHANGED <<runCount, lastSettled, blobCache, crashed>>
    /\ UNCHANGED <<fx, mx, svcVars>>

\* generateSweeper resolves for script gen.i
SweeperResolved ==
    /\ ~crashed
    /\ gen.pc = "generating"
    /\ generationResults' =
          Append(generationResults,
                 [takes |-> [ti \in 1..gen.numberOfTakes |->
                                NewTake(GeneratedBlob(epoch, gen.i, ti))]])
    /\ IF gen.i < gen.n
       THEN /\ gen' = [gen EXCEPT !.i = gen.i + 1]
            /\ generationProgress' = Progress(gen.i + 1, gen.n)
            /\ UNCHANGED isLoading
       ELSE /\ gen' = NoGen
            /\ generationProgress' = "null"
            /\ isLoading' = FALSE
    /\ revoked' = revoked \cup ResultUrls(generationResults)
    /\ UNCHANGED <<runs, runCount, lastSettled, epoch, error, blobCache, crashed>>
    /\ UNCHANGED <<fx, mx, svcVars>>

SweeperRejectedContinues ==
    /\ ~crashed
    /\ gen.pc = "generating"
    /\ error' = ErrGenerate
    /\ IF gen.i < gen.n
       THEN /\ gen' = [gen EXCEPT !.i = gen.i + 1]
            /\ generationProgress' = Progress(gen.i + 1, gen.n)
            /\ UNCHANGED isLoading
       ELSE /\ gen' = NoGen
            /\ generationProgress' = "null"
            /\ isLoading' = FALSE
    /\ UNCHANGED <<generationResults, runs, runCount, lastSettled, epoch, blobCache, crashed,
                   revoked>>
    /\ UNCHANGED <<fx, mx, svcVars>>

\* generateSweeper rejects for script gen.i
SweeperRejected ==
    /\ ~crashed
    /\ gen.pc = "generating"
    /\ error' = ErrGenerate
    /\ gen' = NoGen
    /\ generationProgress' = "null"
    /\ isLoading' = FALSE
    /\ UNCHANGED <<generationResults, runs, runCount, lastSettled, epoch, blobCache, crashed,
                   revoked>>
    /\ UNCHANGED <<fx, mx, svcVars>>

Init == fx = FxIdle /\ mx = MxIdle /\ AppInit /\ ServicesInit

Next ==
    \/ \E n \in 1..MaxScripts, numberOfTakes \in 1..MaxTakes : GenerateClick(n, numberOfTakes)
    \/ SweeperResolved
    \/ SweeperRejected
    \/ \E ri \in 1..MaxScripts, ti \in 1..MaxTakes : UpdateTakeState(ri, ti)
    \/ \E run \in runs : EffectSettled(run)
    \/ \E run \in runs : TrackSettled(run)
    \/ \E run \in runs : SfxSettled(run)
    \/ \E run \in runs : MixSettled(run)

Spec == Init /\ [][Next]_vars

\* the application with one script and one take: the runs of the take at [0][0]
NextTake ==
    \/ GenerateClick(1, 1)
    \/ SweeperResolved
    \/ SweeperRejected
    \/ UpdateTakeState(1, 1)
    \/ \E run \in runs : EffectSettled(run)
    \/ \E run \in runs : TrackSettled(run)
    \/ \E run \in runs : SfxSettled(run)
    \/ \E run \in runs : MixSettled(run)

SpecTake == Init /\ [][NextTake]_vars

(***************************************************************************)
(* Claims about applyEffect                                                *)
(***************************************************************************)

\* C9: applyEffect with preset None resolves with the very same Blob it was
\* given (same identity, hence same samples, rate, channels and length), and
\* neither decodes nor re-encodes it -- also when the blob is not decodable.
C9_NoneReturnsInputBlob ==
    (fx.pc = "settled" /\ fx.preset = "None") =>
        /\ fx.out.status = "resolved"
        /\ fx.out.blob = fx.audioBlob
        /\ fx.out.blob.id = fx.audioBlob.id
        /\ fx.out.decodeCalls = 0
        /\ fx.out.encodeCalls = 0
        /\ fx.out.contextsOpened = 0

C9_Witness ==
    /\ fx.pc = "settled" /\ fx.preset = "None"
    /\ fx.out.status = "resolved" /\ fx.audioBlob.id = 1
    /\ fx.audioBlob.decodable = FALSE

\* C10: for PitchShiftUp (rate 5/4) and PitchShiftDown (rate 4/5) the output
\* has exactly ceil(inputLength / rate) frames: the least k with
\* k * rate >= inputLength.
C10_PitchShiftLength ==
    (fx.pc = "settled" /\ fx.out.status = "resolved"
        /\ fx.preset \in {"PitchShiftUp", "PitchShiftDown"}) =>
        LET n == Len(fx.audioBlob.samples)
            k == WavFrames(fx.out.blob)
            num == IF fx.preset = "PitchShiftUp" THEN 5 ELSE 4
            den == IF fx.preset = "PitchShiftUp" THEN 4 ELSE 5
        IN /\ k * num >= n * den
           /\ (k - 1) * num < n * den
           /\ Len(fx.out.blob.samples) = k

C10_Witness ==
    /\ fx.pc = "settled" /\ fx.out.status = "resolved"
    /\ fx.preset = "PitchShiftDown"
    /\ Len(fx.audioBlob.samples) = 3
    /\ WavFrames(fx.out.blob) = 4

(***************************************************************************)
(* Claims about mixAudio                                                   *)
(***************************************************************************)
Decodes(layer) == layer.blob.decodable

\* the optional layers of the settled call that decode, in the order of the
\* code: background track, sound effects, vocal drops
MixedTrack ==
    IF mx.backgroundTrack.present /\ mx.backgroundTrack.blob.decodable
    THEN <<mx.backgroundTrack>> ELSE <<>>

MixedTransients ==
    SelectSeq(mx.sfxToApply, Decodes) \o SelectSeq(mx.vocalDropsToApply, Decodes)

MixReturns == mx.pc = "settled" /\ mx.voiceBlob.decodable /\ mx.renderOk

\* C4: whichever optional layers fail to decode, a call whose voice decodes
\* and whose render succeeds resolves, and its mix holds one source for each
\* optional layer that decoded, in order, with that layer's samples and gain.
C4_FailedLayerSkippedAlone ==
    MixReturns =>
        /\ mx.out.status = "resolved"
        /\ Len(mx.out.sources) = Len(MixedTrack) + Len(MixedTransients)
        /\ \A k \in 1..Len(MixedTrack) :
              /\ mx.out.sources[k].samples = MixedTrack[k].blob.samples
              /\ mx.out.sources[k].gain = MixedTrack[k].volume
        /\ \A k \in 1..Len(MixedTransients) :
              /\ mx.out.sources[Len(MixedTrack) + k].samples
                    = MixedTransients[k].blob.samples
              /\ mx.out.sources[Len(MixedTrack) + k].gain = MixedTransients[k].volume

C4_Witness ==
    /\ MixReturns /\ mx.out.status = "resolved"
    /\ mx.backgroundTrack.present /\ ~mx.backgroundTrack.blob.decodable
    /\ Len(mx.sfxToApply) = 2
    /\ ~mx.sfxToApply[1].blob.decodable /\ mx.sfxToApply[2].blob.decodable
    /\ Len(mx.out.sources) = 1

\* C6: the mix has exactly the decoded voice's frames, channel count and
\* sample rate, whatever the optional layers are.
C6_OutputShapeIsVoiceShape ==
    (mx.pc = "settled" /\ mx.out.status = "resolved") =>
        /\ WavFrames(mx.out.blob) = Len(mx.voiceBlob.samples)
        /\ Len(mx.out.blob.samples) = Len(mx.voiceBlob.samples)
        /\ mx.out.blob.numberOfChannels = mx.voiceBlob.numberOfChannels
        /\ mx.out.blob.sampleRate = mx.voiceBlob.sampleRate

C6_Witness ==
    /\ mx.pc = "settled" /\ mx.out.status = "resolved"
    /\ Len(mx.voiceBlob.samples) = 2
    /\ \E k \in 1..Len(mx.sfxToApply) :
          /\ mx.sfxToApply[k].blob.decodable
          /\ Len(mx.sfxToApply[k].blob.samples) > 2
          /\ mx.sfxToApply[k].blob.numberOfChannels # mx.voiceBlob.numberOfChannels
    /\ \E k \in 1..Len(mx.vocalDropsToApply) : ~mx.vocalDropsToApply[k].blob.decodable

\* the start offset the specification gives a layer, in half frames:
\* max(0, s), s = 0 | voice/2 - layer/2 | voice - layer
ClaimedStart(layer) ==
    LET v == Len(mx.voiceBlob.samples)
        l == Len(layer.blob.samples)
    IN CASE layer.timing = "start" -> 0
         [] layer.timing = "middle" -> IF v >= l THEN v - l ELSE 0
         [] layer.timing = "end" -> IF v >= l THEN 2 * (v - l) ELSE 0

\* C7: every SFX and vocal-drop source is started at max(0, s); the start is
\* never negative and is 0 for End when the layer is longer than the voice.
C7_StartOffsetClamped ==
    (mx.pc = "settled" /\ mx.voiceBlob.decodable) =>
        \A k \in 1..Len(MixedTransients) :
            LET source == mx.out.sources[Len(MixedTrack) + k]
                layer == MixedTransients[k]
            IN /\ source.when = ClaimedStart(layer)
               /\ source.when >= 0
               /\ (layer.timing = "end"
                     /\ Len(layer.blob.samples) > Len(mx.voiceBlob.samples))
                  => source.when = 0

C7_Witness ==
    /\ mx.pc = "settled" /\ mx.out.status = "resolved"
    /\ Len(MixedTransients) = 2
    /\ MixedTransients[1].timing = "end"
    /\ Len(MixedTransients[1].blob.samples) > Len(mx.voiceBlob.samples)
    /\ mx.out.sources[Len(MixedTrack) + 1].when = 0
    /\ MixedTransients[2].timing = "middle"
    /\ mx.out.sources[Len(MixedTrack) + 2].when > 0

\* what a transient layer adds to output frame i, started at its claimed offset
ClaimedTransientSample(layer, i) ==
    LET j == i - ((ClaimedStart(layer) + 1) \div 2)
    IN IF j >= 1 /\ j <= Len(layer.blob.samples)
       THEN layer.volume * layer.blob.samples[j] ELSE 0

RECURSIVE ClaimedTransientSum(_, _)
ClaimedTransientSum(layers, i) ==
    IF layers = <<>> THEN 0
    ELSE ClaimedTransientSample(Head(layers), i) + ClaimedTransientSum(Tail(layers), i)

ClaimedTrackSample(i) ==
    IF MixedTrack = <<>> THEN 0
    ELSE LET t == MixedTrack[1]
         IN t.volume * t.blob.samples[((i - 1) % Len(t.blob.samples)) + 1]

Failures == {"failedEffect", "failedTrack", "failedSfx", "failedMix"}

LiveTakes == {<<ri, ti>> \in (1..MaxScripts) \X (1..MaxTakes) : HasTake(generationResults, ri, ti)}

LiveTake(p) == generationResults[p[1]].takes[p[2]]

\* an updateTakeState call ends in this step
Settles == lastSettled' # lastSettled

\* C1: a step in which a run ends on a failure leaves the processed and the
\* final buffer of every take as they were and sets the error message; the
\* processed or the final buffer of a take changes only in a step in which a
\* run ends after its mix was made, and then the two are that run's outputs.
C1_FailureKeepsBuffers ==
    [][ /\ (Settles /\ lastSettled'.how \in Failures) =>
              /\ error' = ErrProcess
              /\ \A p \in LiveTakes :
                    /\ HasTake(generationResults', p[1], p[2])
                    /\ LiveTake(p)'.processedBlob = LiveTake(p).processedBlob
                    /\ LiveTake(p)'.finalBlob = LiveTake(p).finalBlob
        /\ \A p \in LiveTakes :
              (/\ HasTake(generationResults', p[1], p[2])
               /\ LiveTake(p)'.originalBlob = LiveTake(p).originalBlob
               /\ \/ LiveTake(p)'.processedBlob # LiveTake(p).processedBlob
                  \/ LiveTake(p)'.finalBlob # LiveTake(p).finalBlob) =>
                 /\ Settles
                 /\ lastSettled'.how = "committed"
                 /\ \E run \in runs :
                       /\ run.pc = "mix"
                       /\ run.id = lastSettled'.id
                       /\ run.voice = lastSettled'.voice
                       /\ LiveTake(p)'.processedBlob = run.processedBlob
                       /\ LiveTake(p)'.finalBlob.run = run.id
                       /\ LiveTake(p)'.finalBlob.voice = run.voice
                       /\ LiveTake(p)'.finalBlob.effect = run.processedBlob.effect
                       /\ LiveTake(p)'.finalBlob.mix # NoMix
      ]_vars

\* the second run of a take failed in mixAudio, after its effect was applied:
\* the take still holds the outputs of its first run
C1_Witness ==
    /\ lastSettled.how = "failedMix"
    /\ error = ErrProcess
    /\ \E p \in LiveTakes :
          /\ LiveTake(p).originalBlob.voice = lastSettled.voice
          /\ LiveTake(p).requested = 2
          /\ lastSettled.id = 2
          /\ LiveTake(p).selectedEffect # "None"
          /\ LiveTake(p).processedBlob.run = 1
          /\ LiveTake(p).finalBlob.run = 1

\* no run is in flight for the take at p
Quiescent(p) == \A run \in runs : <<run.ri, run.ti>> # p

\* C2: once no run is in flight for a take whose latest requested run ended
\* with a commit, a final buffer made from that take's recording is the one
\* the latest requested run made, whatever the order the runs ended in.
C2_LatestRequestWins ==
    \A p \in LiveTakes :
        (/\ Quiescent(p)
         /\ LiveTake(p).requestedEnd = "committed"
         /\ LiveTake(p).finalBlob.voice = LiveTake(p).originalBlob.voice) =>
           LiveTake(p).finalBlob.run = LiveTake(p).requested

\* C3: the processed and the final buffer of a take are made from that take's
\* own recording: a run started for one take is never committed to another.
C3_CommittedToOwnTake ==
    \A p \in LiveTakes :
        /\ LiveTake(p).processedBlob.voice = LiveTake(p).originalBlob.voice
        /\ LiveTake(p).finalBlob.voice = LiveTake(p).originalBlob.voice

\* C5: no run ends without a commit because the background track preset or
\* a sound effect preset could not be resolved: the layer alone is dropped.
C5_OptionalLayerFailureDropsLayer ==
    lastSettled.how \notin {"failedTrack", "failedSfx"}


(***************************************************************************)
(* The effect presets                                                      *)
(***************************************************************************)
\* applyEffect resolved for a preset other than None
EffectApplied ==
    fx.pc = "settled" /\ fx.out.status = "resolved" /\ fx.preset # "None"

\* C11: for every preset other than None the output of applyEffect has the
\* sample rate and the channel count of the decoded input, and its length
\* differs from the input's for the two pitch-shift presets only.
C11_RateAndChannelsKept ==
    EffectApplied =>
        /\ fx.out.blob.sampleRate = fx.audioBlob.sampleRate
        /\ fx.out.blob.numberOfChannels = fx.audioBlob.numberOfChannels
        /\ (WavFrames(fx.out.blob) # Len(fx.audioBlob.samples)
               => fx.preset \in {"PitchShiftUp", "PitchShiftDown"})
        /\ Len(fx.out.blob.samples) = WavFrames(fx.out.blob)

\* a mono clip went through the convolver of RadioBooth, whose impulse has
\* two channels
C11_Witness ==
    /\ EffectApplied
    /\ fx.preset = "RadioBooth"
    /\ fx.audioBlob.numberOfChannels = 1
    /\ fx.audioBlob.sampleRate = 24000
    /\ fx.out.blob.numberOfChannels = 1
    /\ WavFrames(fx.out.blob) = 3

\* C12: for CosmicDelay the output is longer than the input, by the render
\* tail that holds the repeats of the delay after the end of the input.
C12_CosmicDelayHasTail ==
    (EffectApplied /\ fx.preset = "CosmicDelay") =>
        WavFrames(fx.out.blob) > Len(fx.audioBlob.samples)


(***************************************************************************)
(* getSfxBlob and getTrackBlob.  A call is                                 *)
(*   [service, preset, pc, blob, fetched, seen]                            *)
(* pc: "fetch" (suspended in base64ToBlob, at fetch), "await" (suspended   *)
(* on the empty Blob that base64ToBlob returned), "resolved", "rejected";  *)
(* blob: the Blob of the call; fetched: whether the call reached fetch;    *)
(* seen (history): blobCache[preset] as the call found it.                 *)
(***************************************************************************)
\* if (blobCache[preset])
CacheHitNever(entry) == FALSE

CacheHit(entry) == entry # Undefined

\* the test that guards the throw: typeof base64String === 'undefined' in
\* getSfxBlob, !base64String in getTrackBlob
FoundAlways(service, base64String) == TRUE

Found(service, base64String) ==
    IF service = "sfx" THEN base64String # "undefined"
    ELSE base64String \notin {"undefined", ""}

\* base64ToBlob returns an empty Blob, without fetching, for an empty string
\* in sfxService only
EmptyWithoutFetch(service, base64String) == service = "sfx" /\ base64String = ""

\* blobCache[preset] = blob
CacheKeyOfLatestCall(call) == store.calls[Len(store.calls)].preset

CacheKey(call) == call.preset

NewBlob(service, preset) ==
    [id |-> store.blobs + 1, bytes |-> PresetTable(service, preset),
     from |-> <<service, preset>>]

\* the call, up to its first suspension or its return
GetBlob(service, preset) ==
    /\ Len(store.calls) < MaxStoreCalls
    /\ LET entry == store.cache[service][preset]
           base64String == PresetTable(service, preset)
           call == [service |-> service, preset |-> preset, seen |-> entry]
       IN IF CacheHit(entry)
          THEN store' = [store EXCEPT !.calls = Append(@,
                            call @@ [pc |-> "resolved", blob |-> entry, fetched |-> FALSE])]
          ELSE IF ~Found(service, base64String)
          THEN store' = [store EXCEPT !.calls = Append(@,
                            call @@ [pc |-> "rejected", blob |-> Undefined,
                                     fetched |-> FALSE])]
          ELSE IF EmptyWithoutFetch(service, base64String)
          THEN store' = [store EXCEPT
                            !.calls = Append(@, call @@ [pc |-> "await",
                                                         blob |-> NewBlob(service, preset),
                                                         fetched |-> FALSE]),
                            !.blobs = @ + 1]
          ELSE store' = [store EXCEPT !.calls = Append(@,
                            call @@ [pc |-> "fetch", blob |-> Undefined, fetched |-> TRUE])]
    /\ UNCHANGED <<fx, mx, appVars, wav, live, dr>>

\* base64ToBlob resolved: the call stores the blob and returns it
Base64ToBlobResolved(k) ==
    /\ store.calls[k].pc \in {"fetch", "await"}
    /\ LET call == store.calls[k]
           blob == IF call.pc = "await" THEN call.blob
                   ELSE NewBlob(call.service, call.preset)
       IN store' = [store EXCEPT
                       !.cache[call.service][CacheKey(call)] = blob,
                       !.calls[k].pc = "resolved",
                       !.calls[k].blob = blob,
                       !.blobs = IF call.pc = "await" THEN @ ELSE @ + 1]
    /\ UNCHANGED <<fx, mx, appVars, wav, live, dr>>

\* fetch rejected: the call rejects before it stores anything
Base64ToBlobRejected(k) ==
    /\ store.calls[k].pc = "fetch"
    /\ store' = [store EXCEPT !.calls[k].pc = "rejected"]
    /\ UNCHANGED <<fx, mx, appVars, wav, live, dr>>

NextStore ==
    \/ \E service \in Services, preset \in PresetIds : GetBlob(service, preset)
    \/ \E k \in 1..Len(store.calls) : Base64ToBlobResolved(k)
    \/ \E k \in 1..Len(store.calls) : Base64ToBlobRejected(k)

SpecStore == Init /\ [][NextStore]_vars


(***************************************************************************)
(* The preset stores: claims                                               *)
(***************************************************************************)
StoreCalls == 1..Len(store.calls)

Entry(service, preset) == store.cache[service][preset]

CallFor(k, service, preset) ==
    store.calls[k].service = service /\ store.calls[k].preset = preset

\* a call of getSfxBlob or getTrackBlob is made in this step
CallStarts == Len(store.calls') = Len(store.calls) + 1

StartedCall == store.calls'[Len(store.calls')]

\* C13 as stated: once a preset has an entry, the entry stays the very same
\* object, and a call that finds it returns it without fetching.
C13_EntryNeverChanged ==
    [][ /\ \A service \in Services, preset \in PresetIds :
              Entry(service, preset) # Undefined
                 => Entry(service, preset)' = Entry(service, preset)
        /\ (CallStarts /\ StartedCall.seen # Undefined) =>
              /\ StartedCall.pc = "resolved"
              /\ StartedCall.blob = StartedCall.seen
              /\ ~StartedCall.fetched
      ]_vars

\* C13, amended: once a call for p has resolved, p has an entry and keeps one;
\* a call that starts while p has an entry resolves at once with that entry,
\* fetches nothing and builds no Blob; the entry is replaced only when a call
\* for p that found no entry resolves, by the Blob that call built from the
\* same table string.
C13_CachedEntryReturned ==
    [][ /\ \A service \in Services, preset \in PresetIds :
              Entry(service, preset) # Undefined =>
                 /\ Entry(service, preset)' # Undefined
                 /\ Entry(service, preset)' # Entry(service, preset) =>
                       \E k \in StoreCalls :
                          /\ CallFor(k, service, preset)
                          /\ store.calls[k].seen = Undefined
                          /\ store.calls[k].pc \in {"fetch", "await"}
                          /\ store.calls'[k].pc = "resolved"
                          /\ store.calls'[k].blob = Entry(service, preset)'
                          /\ Entry(service, preset)'.bytes = Entry(service, preset).bytes
                          /\ Entry(service, preset)'.from = <<service, preset>>
        /\ (CallStarts /\ StartedCall.seen # Undefined) =>
              /\ StartedCall.pc = "resolved"
              /\ StartedCall.blob = Entry(StartedCall.service, StartedCall.preset)
              /\ ~StartedCall.fetched
              /\ store.blobs' = store.blobs
              /\ store.cache' = store.cache
        /\ \A k \in 1..Len(store.calls') :
              store.calls'[k].pc = "resolved" =>
                 store.cache'[store.calls'[k].service][store.calls'[k].preset] # Undefined
      ]_vars

\* two calls for Laser Zap found no entry; the first resolved, a third call
\* returned the first's Blob from the cache, then the second resolved and
\* replaced the entry
C13_Witness ==
    /\ Len(store.calls) = 3
    /\ \A k \in StoreCalls : CallFor(k, "sfx", "LaserZap") /\ store.calls[k].pc = "resolved"
    /\ store.calls[1].seen = Undefined /\ store.calls[2].seen = Undefined
    /\ store.calls[3].seen = store.calls[1].blob
    /\ store.calls[3].blob = store.calls[1].blob
    /\ ~store.calls[3].fetched
    /\ Entry("sfx", "LaserZap") = store.calls[2].blob
    /\ store.calls[2].blob # store.calls[1].blob

C15_NonePresetResolvesEmpty ==
    \A k \in StoreCalls :
        store.calls[k].preset = "None" =>
           /\ store.calls[k].pc # "rejected"
           /\ store.calls[k].pc = "resolved" => store.calls[k].blob.bytes = ""

\* C17: every call that resolved returned a Blob built from its own preset's
\* table string and left its preset with an entry; every entry is a Blob
\* that a resolved call for that preset built from that preset's table
\* string -- whatever the order in which concurrent calls resume.
C17_ConcurrentResolveKeepsEntry ==
    /\ \A k \in StoreCalls :
          store.calls[k].pc = "resolved" =>
             LET call == store.calls[k]
             IN /\ call.blob.id > 0
                /\ call.blob.from = <<call.service, call.preset>>
                /\ call.blob.bytes = PresetTable(call.service, call.preset)
                /\ Entry(call.service, call.preset) # Undefined
    /\ \A service \in Services, preset \in PresetIds :
          Entry(service, preset) # Undefined =>
             /\ Entry(service, preset).from = <<service, preset>>
             /\ Entry(service, preset).bytes = PresetTable(service, preset)
             /\ \E k \in StoreCalls :
                   /\ CallFor(k, service, preset)
                   /\ store.calls[k].pc = "resolved"
                   /\ store.calls[k].blob = Entry(service, preset)

\* two calls of getTrackBlob for Synth Whoosh were in flight together and
\* resumed in the reverse order: each built a Blob, the first call's is cached
C17_Witness ==
    /\ Len(store.calls) = 2
    /\ \A k \in StoreCalls :
          /\ CallFor(k, "track", "SynthWhoosh")
          /\ store.calls[k].pc = "resolved"
          /\ store.calls[k].seen = Undefined
          /\ store.calls[k].fetched
    /\ store.calls[1].blob.id = 2
    /\ store.calls[2].blob.id = 1
    /\ Entry("track", "SynthWhoosh") = store.calls[1].blob


(***************************************************************************)
(* The layers the pipeline hands on                                        *)
(***************************************************************************)
NoNoneLayer(backgroundTrack, sfxToApply) ==
    /\ backgroundTrack.present => backgroundTrack.source # "None"
    /\ \A k \in 1..Len(sfxToApply) : sfxToApply[k].preset # "None"

\* C16: the pipeline asks getTrackBlob and getSfxBlob for no None preset and
\* hands mixAudio no layer of a None preset: a run waits for no None preset,
\* its layers hold none, no store has cached one for it, and the mix of every
\* final buffer has no background layer of track None and no SFX of preset
\* None.
C16_NonePresetsFiltered ==
    /\ "None" \notin blobCache
    /\ \A run \in runs :
          /\ run.pc = "track" => run.trackPreset # "None"
          /\ run.pc \in {"sfx", "mix"} => NoNoneLayer(run.backgroundTrack, run.sfxToApply)
    /\ \A p \in LiveTakes :
          NoNoneLayer(LiveTake(p).finalBlob.mix.track, LiveTake(p).finalBlob.mix.sfx)

\* the latest run of a take whose track is None and whose only SFX has the
\* preset None was committed: its mix has no layer
C16_Witness ==
    \E p \in LiveTakes :
        /\ LiveTake(p).selectedTrack = "None"
        /\ Len(LiveTake(p).appliedSfx) = 1
        /\ LiveTake(p).appliedSfx[1].preset = "None"
        /\ LiveTake(p).requestedEnd = "committed"
        /\ Quiescent(p)
        /\ LiveTake(p).finalBlob.run = LiveTake(p).requested
        /\ LiveTake(p).finalBlob.mix.mixed
        /\ ~LiveTake(p).finalBlob.mix.track.present
        /\ LiveTake(p).finalBlob.mix.sfx = <<>>


(***************************************************************************)
(* audioBufferToWavBlob (services/audioEffectsService.ts), statement by    *)
(* statement                                                               *)
(***************************************************************************)
\* amplitudes inside and outside [-1, 1]
Amplitudes ==
    <<(<<-5, 3>>), (<<-1, 1>>), (<<-1, 3>>), (<<0, 1>>), (<<1, 4>>), (<<2, 3>>),
      (<<1, 1>>), (<<4, 3>>)>>

\* the rendered buffers of the model: channel c (from 0) holds at frame f
\* (from 0) the amplitude number shift + c + f of the list, cyclically
WavBuffer(ch, rate, len, shift) ==
    [numberOfChannels |-> ch, sampleRate |-> rate, length |-> len,
     channelData |-> [c \in 1..ch |-> [f \in 1..len |->
                         Amplitudes[((shift + c + f) % Len(Amplitudes)) + 1]]]]

\* Math.max(-1, Math.min(1, x))
Clamp(x) ==
    IF x[1] > x[2] THEN <<1, 1>> ELSE IF x[1] < -x[2] THEN <<-1, 1>> ELSE x

\* sample < 0 ? sample * 32768 : sample * 32767
Scale(x) == IF x[1] < 0 THEN <<x[1] * 32768, x[2]>> ELSE <<x[1] * 32767, x[2]>>

\* ToInt16 of view.setInt16, for a value within the range of Int16: the
\* fraction is dropped
ToInt16(x) == IF x[1] >= 0 THEN x[1] \div x[2] ELSE -((-x[1]) \div x[2])

\* view.setUint16 / setUint32 / setInt16 at pos
Field(pos, size, value, channel, frame) ==
    [pos |-> pos, size |-> size, value |-> value, channel |-> channel, frame |-> frame]

\* the header: setUint32 and setUint16 calls, pos advancing by the size
RECURSIVE WriteHeader(_, _)
WriteHeader(fields, pos) ==
    IF fields = <<>> THEN <<>>
    ELSE <<Field(pos, fields[1][1], fields[1][2], -1, -1)>>
         \o WriteHeader(Tail(fields), pos + fields[1][1])

HeaderFields(buffer, length) ==
    LET numOfChan == buffer.numberOfChannels
    IN << <<4, 1179011410>>,                  \* "RIFF"
          <<4, length - 8>>,
          <<4, 1163280727>>,                  \* "WAVE"
          <<4, 544501094>>,                   \* "fmt "
          <<4, 16>>,
          <<2, 1>>,
          <<2, numOfChan>>,
          <<4, buffer.sampleRate>>,
          <<4, buffer.sampleRate * 2 * numOfChan>>,
          <<2, numOfChan * 2>>,
          <<2, 16>>,
          <<4, 1635017060>>,                  \* "data"
          <<4, length - 40 - 4>> >>           \* length - pos - 4, pos being 40

\* the call: the locals are set
WavCall ==
    /\ wav.pc = "idle"
    /\ \E ch \in 1..MaxChannels, rate \in SampleRates, len \in 1..MaxLen,
          shift \in 0..(Len(Amplitudes) - 1) :
          LET buffer == WavBuffer(ch, rate, len, shift)
          IN wav' = [WavIdle EXCEPT !.pc = "header", !.buffer = buffer,
                                    !.length = WavByteLength(buffer)]
    /\ UNCHANGED <<fx, mx, appVars, store, live, dr>>

\* the RIFF header, the "fmt " and the "data" sub-chunk headers
WavHeader ==
    /\ wav.pc = "header"
    /\ LET writes == WriteHeader(HeaderFields(wav.buffer, wav.length), 0)
       IN wav' = [wav EXCEPT !.pc = "loop", !.writes = writes,
                             !.pos = writes[Len(writes)].pos + writes[Len(writes)].size]
    /\ UNCHANGED <<fx, mx, appVars, store, live, dr>>

\* offset after the sample of channel i: offset++ follows the for loop
NextOffsetEverySample(w) == w.offset + 1

NextOffset(w) ==
    IF w.i + 1 = w.buffer.numberOfChannels THEN w.offset + 1 ELSE w.offset

\* one pass of the body of the for loop; the while test is made before the
\* pass for channel 0.  setInt16 beyond the ArrayBuffer throws a RangeError.
WavWriteSample ==
    /\ wav.pc = "loop"
    /\ wav.i > 0 \/ wav.pos < wav.length
    /\ LET inside == wav.offset < wav.buffer.length
           \* channels[i][offset]; undefined beyond the array, which makes
           \* the sample NaN and the value written 0
           x == IF inside THEN wav.buffer.channelData[wav.i + 1][wav.offset + 1]
                ELSE <<0, 1>>
           sample == ToInt16(Scale(Clamp(x)))
       IN IF wav.pos + 2 > wav.length
          THEN wav' = [wav EXCEPT !.pc = "threw",
                                  !.reads = Append(@, <<wav.i, wav.offset>>)]
          ELSE wav' = [wav EXCEPT
                          !.reads = Append(@, <<wav.i, wav.offset>>),
                          !.writes = Append(@, Field(wav.pos, 2, sample, wav.i, wav.offset)),
                          !.pos = @ + 2,
                          !.i = (wav.i + 1) % wav.buffer.numberOfChannels,
                          !.offset = NextOffset(wav)]
    /\ UNCHANGED <<fx, mx, appVars, store, live, dr>>

\* the while loop ends: return new Blob([view])
WavReturn ==
    /\ wav.pc = "loop"
    /\ wav.i = 0
    /\ wav.pos >= wav.length
    /\ wav' = [wav EXCEPT !.pc = "done"]
    /\ UNCHANGED <<fx, mx, appVars, store, live, dr>>

NextWav == WavCall \/ WavHeader \/ WavWriteSample \/ WavReturn

SpecWav == Init /\ [][NextWav]_vars


(***************************************************************************)
(* The encoder: claims                                                     *)
(***************************************************************************)
WavWrites == 1..Len(wav.writes)

SampleWrites == {k \in WavWrites : wav.writes[k].channel >= 0}

\* the field written at byte offset pos
FieldAt(pos) == wav.writes[CHOOSE k \in WavWrites : wav.writes[k].pos = pos]

\* the fields written lie one after the other from byte 0
Contiguous ==
    \A k \in WavWrites :
        wav.writes[k].pos = IF k = 1 THEN 0
                            ELSE wav.writes[k - 1].pos + wav.writes[k - 1].size

Abs(n) == IF n >= 0 THEN n ELSE -n

\* C18: the encoder returns channelCount * sampleLength * 2 + 44 bytes, all
\* of them written; the first 44 are the header, which declares format 1
\* (PCM) and 16 bits per sample, a RIFF size of total - 8 and a data size of
\* total - 44.
C18_EncodedLengthAndHeader ==
    wav.pc = "done" =>
        LET total == wav.buffer.numberOfChannels * wav.buffer.length * 2 + 44
            last == wav.writes[Len(wav.writes)]
        IN /\ wav.length = total
           /\ Contiguous
           /\ last.pos + last.size = total
           /\ \A k \in WavWrites : wav.writes[k].channel = -1 <=> wav.writes[k].pos < 44
           /\ \E k \in WavWrites :
                 wav.writes[k].channel = -1 /\ wav.writes[k].pos + wav.writes[k].size = 44
           /\ FieldAt(20).size = 2 /\ FieldAt(20).value = 1
           /\ FieldAt(34).size = 2 /\ FieldAt(34).value = 16
           /\ FieldAt(4).size = 4 /\ FieldAt(4).value = total - 8
           /\ FieldAt(40).size = 4 /\ FieldAt(40).value = total - 44

\* a buffer of two channels and three frames was encoded: 56 bytes
C18_Witness ==
    /\ wav.pc = "done"
    /\ wav.buffer.numberOfChannels = 2
    /\ wav.buffer.length = 3
    /\ wav.length = 56
    /\ FieldAt(40).value = 12

\* C19: every sample written is the amplitude clamped to [-1, 1], scaled by
\* 32768 if negative and by 32767 otherwise, and rounded to the nearest
\* integer (at most 1/2 away from the scaled value), and lies in
\* [-32768, 32767].
C19_SamplesRoundedToNearest ==
    \A k \in SampleWrites :
        LET w == wav.writes[k]
            scaled == Scale(Clamp(wav.buffer.channelData[w.channel + 1][w.frame + 1]))
        IN /\ 2 * Abs(w.value * scaled[2] - scaled[1]) <= scaled[2]
           /\ w.value >= -32768
           /\ w.value <= 32767

\* C20: the sample of channel c at frame f is written at byte offset
\* 44 + 2 * (f * channelCount + c), every (f, c) once and nothing else after
\* the header; no channel array is read at or beyond its length and no write
\* falls outside the buffer.
C20_InterleavedByFrame ==
    /\ wav.pc # "threw"
    /\ \A r \in 1..Len(wav.reads) :
          /\ wav.reads[r][1] < wav.buffer.numberOfChannels
          /\ wav.reads[r][2] < wav.buffer.length
    /\ wav.pc = "done" =>
          /\ Cardinality(SampleWrites) = wav.buffer.numberOfChannels * wav.buffer.length
          /\ Len(wav.reads) = Cardinality(SampleWrites)
          /\ \A f \in 0..(wav.buffer.length - 1), c \in 0..(wav.buffer.numberOfChannels - 1) :
                \E k \in SampleWrites :
                   /\ wav.writes[k].channel = c /\ wav.writes[k].frame = f
                   /\ wav.writes[k].pos = 44 + 2 * (f * wav.buffer.numberOfChannels + c)
                   /\ wav.writes[k].size = 2
                   /\ wav.writes[k].value =
                         ToInt16(Scale(Clamp(wav.buffer.channelData[c + 1][f + 1])))
                   /\ \A j \in SampleWrites :
                         (wav.writes[j].channel = c /\ wav.writes[j].frame = f) => j = k

\* a buffer of two channels and two frames was encoded: the last sample, of
\* channel 1 at frame 1, is at byte 50
C20_Witness ==
    /\ wav.pc = "done"
    /\ wav.buffer.numberOfChannels = 2
    /\ wav.buffer.length = 2
    /\ FieldAt(50).channel = 1
    /\ FieldAt(50).frame = 1
    /\ FieldAt(46).channel = 1
    /\ FieldAt(46).frame = 0

(***************************************************************************)
(* Claim C29: every AudioContext opened by applyEffect or mixAudio is      *)
(* closed by the time the call settles, whether it resolves or rejects.    *)
(* applyEffect closes its context only after a successful decode, and      *)
(* mixAudio only after a successful render.                                *)
(***************************************************************************)
C29_ContextsClosedWhenSettled ==
    /\ fx.pc = "settled" => fx.out.contextsClosed = fx.out.contextsOpened
    /\ mx.pc = "settled" => mx.out.contextsClosed = mx.out.contextsOpened

(***************************************************************************)
(* Claim C23: applyEffect is deterministic: two calls with the same clip   *)
(* and the same preset that both resolve yield the same clip.  The impulse *)
(* responses of RadioBooth and ConcertHall are drawn from Math.random.     *)
(***************************************************************************)
C23_SameInputSameOutput ==
    [][(/\ fx.pc = "settled"
        /\ fx'.pc = "settled"
        /\ fx'.audioBlob = fx.audioBlob
        /\ fx'.preset = fx.preset
        /\ fx.out.status = "resolved"
        /\ fx'.out.status = "resolved")
       => fx'.out.blob = fx.out.blob]_vars

(***************************************************************************)
(* generateSingleTake and the callbacks of its live session                *)
(***************************************************************************)
\* decode(base64Audio) of the messages of the model: the bytes of a chunk
Chunks == {<<1>>, <<2, 3>>}

\* fullPcmData: the chunks copied one after the other
RECURSIVE Concatenated(_)
Concatenated(audioChunks) ==
    IF audioChunks = <<>> THEN <<>>
    ELSE Head(audioChunks) \o Concatenated(Tail(audioChunks))

\* resolve and reject of a promise act on a pending promise only
Resolve(promise, value) ==
    IF promise.state = "pending"
    THEN [state |-> "resolved", value |-> value, reason |-> "none"]
    ELSE promise

Reject(promise, reason) ==
    IF promise.state = "pending"
    THEN [state |-> "rejected", value |-> <<>>, reason |-> reason]
    ELSE promise

\* the call: without an API key it throws, else it connects
GenerateSingleTake ==
    /\ live = LiveIdle
    /\ \E apiKey \in BOOLEAN :
          live' = IF apiKey
                  THEN [live EXCEPT !.session = "connecting"]
                  ELSE [live EXCEPT !.promise = Reject(@, "API_KEY environment variable not set.")]
    /\ UNCHANGED <<fx, mx, appVars, store, wav, dr>>

\* onopen: the script is sent; a failure to send rejects
OnOpen ==
    /\ live.session = "connecting"
    /\ \E sent \in BOOLEAN :
          live' = [live EXCEPT !.session = "open",
                               !.promise = IF sent THEN @ ELSE Reject(@, "send")]
    /\ UNCHANGED <<fx, mx, appVars, store, wav, dr>>

\* onmessage: data is the chunk of the message (<<>> for none)
OnMessage ==
    /\ live.session = "open"
    /\ \E data \in Chunks \cup {<<>>}, turnComplete \in BOOLEAN :
          /\ data # <<>> => Len(live.audioChunks) < MaxChunks
          /\ LET audioChunks == IF data # <<>> THEN Append(live.audioChunks, data)
                                ELSE live.audioChunks
             IN live' = [live EXCEPT
                    !.audioChunks = audioChunks,
                    !.closeCalled = @ \/ turnComplete,
                    !.promise =
                        IF ~turnComplete THEN @
                        ELSE IF audioChunks = <<>>
                        THEN Reject(@, "No audio data received from the API.")
                        ELSE Resolve(@, Concatenated(audioChunks))]
    /\ UNCHANGED <<fx, mx, appVars, store, wav, dr>>

\* onerror
OnError ==
    /\ live.session \in {"connecting", "open"}
    /\ live' = [live EXCEPT !.promise = Reject(@, "Session error")]
    /\ UNCHANGED <<fx, mx, appVars, store, wav, dr>>

\* onclose: the session ends, after session.close() or not; the callback
\* has an empty body
OnClose ==
    /\ live.session \in {"connecting", "open"}
    /\ live' = [live EXCEPT !.session = "closed"]
    /\ UNCHANGED <<fx, mx, appVars, store, wav, dr>>

NextLive == GenerateSingleTake \/ OnOpen \/ OnMessage \/ OnError \/ OnClose

SpecLive == Init /\ [][NextLive]_vars

(***************************************************************************)
(* Claim C28: a generateSingleTake call is settled once its live session   *)
(* has ended: its promise is never pending after the session has closed.   *)
(* onclose neither resolves nor rejects, so a session that closes before   *)
(* turnComplete and without an error leaves the promise pending.           *)
(***************************************************************************)
C28_SettledWhenClosed ==
    live.session = "closed" => live.promise.state # "pending"

(***************************************************************************)
(* Steps 4 and 5 of processAudioForTake on their own: the applied vocal    *)
(* drops are looked up in the library and mixAudio is called               *)
(***************************************************************************)
\* an entry that vocalDrops.find does not find
NoDrop == [id |-> "undefined", blob |-> NoBlob]

\* vocalDrops.find(d => d.id === dropId)
RECURSIVE Find(_, _)
Find(vocalDrops, dropId) ==
    IF vocalDrops = <<>> THEN NoDrop
    ELSE IF Head(vocalDrops).id = dropId THEN Head(vocalDrops)
    ELSE Find(Tail(vocalDrops), dropId)

\* .map(appliedDrop => ...) with null for a drop that is not found or has
\* no blob, then .filter(d => d !== null)
RECURSIVE VocalDropsToApplyUnfiltered(_, _)
VocalDropsToApplyUnfiltered(appliedVocalDrops, vocalDrops) ==
    IF appliedVocalDrops = <<>> THEN <<>>
    ELSE LET appliedDrop == Head(appliedVocalDrops)
             drop == Find(vocalDrops, appliedDrop.dropId)
         IN <<[blob |-> drop.blob, volume |-> appliedDrop.volume,
               timing |-> appliedDrop.timing]>>
            \o VocalDropsToApplyUnfiltered(Tail(appliedVocalDrops), vocalDrops)

RECURSIVE VocalDropsToApply(_, _)
VocalDropsToApply(appliedVocalDrops, vocalDrops) ==
    IF appliedVocalDrops = <<>> THEN <<>>
    ELSE LET appliedDrop == Head(appliedVocalDrops)
             drop == Find(vocalDrops, appliedDrop.dropId)
             rest == VocalDropsToApply(Tail(appliedVocalDrops), vocalDrops)
         IN IF drop # NoDrop /\ drop.blob # NoBlob
            THEN <<[blob |-> drop.blob, volume |-> appliedDrop.volume,
                    timing |-> appliedDrop.timing]>> \o rest
            ELSE rest

\* the library entries of the model: "d1" and "d2", each with its clip or
\* still generating; no entry has the id "d3" (a removed entry) or ""
DropClip(id) ==
    IF id = "d1"
    THEN InputBlob(5, TRUE, 1, 24000, <<4>>)
    ELSE InputBlob(6, TRUE, 1, 24000, <<1, -2>>)

Libraries ==
    {<<>>}
    \cup {<<[id |-> i, blob |-> b]>> : <<i, b>> \in
             {ib \in {"d1", "d2"} \X {NoBlob, DropClip("d1"), DropClip("d2")} :
                 ib[2] \in {NoBlob, DropClip(ib[1])}}}
    \cup {<<[id |-> o[1], blob |-> b1], [id |-> o[2], blob |-> b2]>> :
             <<o, b1, b2>> \in
                {x \in {<<"d1", "d2">>, <<"d2", "d1">>}
                        \X {NoBlob, DropClip("d1"), DropClip("d2")}
                        \X {NoBlob, DropClip("d1"), DropClip("d2")} :
                    /\ x[2] \in {NoBlob, DropClip(x[1][1])}
                    /\ x[3] \in {NoBlob, DropClip(x[1][2])}}}

\* the applied drops of the model: the new drop of the Add button has the
\* dropId "", the volume 0.8 and the timing "end"
AppliedDrops ==
    [dropId : {"", "d1", "d2", "d3"}, volume : {16}, timing : {"start", "end"}]

\* the voice and the one SFX of the calls of the model
DropsVoice == InputBlob(1, TRUE, 1, 24000, <<3, -2, 1>>)

DropsSfx == [blob |-> InputBlob(3, TRUE, 1, 24000, <<7>>), volume |-> 14,
             timing |-> "start"]

VocalDropsStep ==
    /\ dr.pc = "idle"
    /\ mx.pc = "idle"
    /\ \E vocalDrops \in Libraries,
          appliedVocalDrops \in SeqsUpTo(AppliedDrops, MaxDrops),
          sfxToApply \in {<<>>, <<DropsSfx>>},
          renderOk \in BOOLEAN :
          LET vocalDropsToApply == VocalDropsToApply(appliedVocalDrops, vocalDrops)
          IN /\ dr' = [pc |-> "mixed", vocalDrops |-> vocalDrops,
                       appliedVocalDrops |-> appliedVocalDrops,
                       vocalDropsToApply |-> vocalDropsToApply]
             /\ mx' = [pc |-> "settled", voiceBlob |-> DropsVoice,
                       backgroundTrack |-> NoTrack, sfxToApply |-> sfxToApply,
                       vocalDropsToApply |-> vocalDropsToApply, renderOk |-> renderOk,
                       out |-> MixAudio(DropsVoice, NoTrack, sfxToApply,
                                        vocalDropsToApply, renderOk, 4)]
    /\ UNCHANGED <<fx, appVars, store, wav, live>>

NextDrops == VocalDropsStep

SpecDrops == Init /\ [][NextDrops]_vars

(***************************************************************************)
(* Claim C21: a vocal-drop layer whose library entry has no clip yet, was  *)
(* removed, or was never selected (empty id) is a no-op.  It is not passed *)
(* to mixAudio, the pipeline does not fail because of it, and the other    *)
(* drops and the SFX are applied in their original order: the layers       *)
(* passed are, in order, the applied drops that name an entry with a clip, *)
(* each with the clip of its entry and its own volume and timing.          *)
(***************************************************************************)
\* the applied drop at k names an entry of the library that has a clip
HasClip(k) ==
    \E i \in 1..Len(dr.vocalDrops) :
        /\ dr.vocalDrops[i].id = dr.appliedVocalDrops[k].dropId
        /\ dr.vocalDrops[i].blob # NoBlob

Kept == {k \in 1..Len(dr.appliedVocalDrops) : HasClip(k)}

\* the j-th applied drop that has a clip
KeptAt(j) == CHOOSE k \in Kept : Cardinality({h \in Kept : h < k}) = j - 1

C21_MissingDropIsNoOp ==
    dr.pc = "mixed" =>
        /\ Len(mx.vocalDropsToApply) = Cardinality(Kept)
        /\ \A j \in 1..Len(mx.vocalDropsToApply) :
              LET a == dr.appliedVocalDrops[KeptAt(j)]
              IN /\ mx.vocalDropsToApply[j].blob # NoBlob
                 /\ \E i \in 1..Len(dr.vocalDrops) :
                       /\ dr.vocalDrops[i].id = a.dropId
                       /\ dr.vocalDrops[i].blob = mx.vocalDropsToApply[j].blob
                 /\ mx.vocalDropsToApply[j].volume = a.volume
                 /\ mx.vocalDropsToApply[j].timing = a.timing
        /\ mx.out.status = (IF mx.renderOk THEN "resolved" ELSE "rejected")
        /\ Len(mx.out.sources) = Len(mx.sfxToApply) + Cardinality(Kept)
        /\ mx.sfxToApply # <<>> => mx.out.sources[1].gain = DropsSfx.volume

\* drops of an entry still generating, of no entry and of an entry with a
\* clip were applied, in this order, with an SFX: the mix resolved with the
\* SFX and the one drop that has a clip
C21_Witness ==
    /\ dr.pc = "mixed"
    /\ Len(dr.appliedVocalDrops) = 3
    /\ dr.appliedVocalDrops[1].dropId = "d2"
    /\ dr.appliedVocalDrops[2].dropId = ""
    /\ dr.appliedVocalDrops[3].dropId = "d1"
    /\ dr.vocalDrops = <<[id |-> "d2", blob |-> NoBlob],
                         [id |-> "d1", blob |-> DropClip("d1")]>>
    /\ mx.sfxToApply = <<DropsSfx>>
    /\ mx.out.status = "resolved"
    /\ Len(mx.vocalDropsToApply) = 1
    /\ mx.vocalDropsToApply[1].blob = DropClip("d1")
    /\ Len(mx.out.sources) = 2

(***************************************************************************)
(* Claim C22: no object URL held by a take of the current result set       *)
(* (originalUrl, processedUrl, finalUrl) has been revoked.  The cleanup of *)
(* the effect on [generationResults, vocalDrops] revokes the URLs of every *)
(* take of the previous array whenever the result set changes, and those   *)
(* takes are the objects still shown.                                      *)
(***************************************************************************)
C22_LiveUrlsNotRevoked ==
    \A p \in LiveTakes : TakeUrls(LiveTake(p)) \cap revoked = {}

(***************************************************************************)
(* Claim C24: re-configuring one take, whether its run succeeds or fails,  *)
(* changes no config field, buffer or isProcessing flag of any other take: *)
(* these fields of a take of the result set change only in a step that     *)
(* starts or ends an updateTakeState call made for that very take.  The    *)
(* call ends by writing to the take at its indices, which after a new      *)
(* generation is another take.                                             *)
(***************************************************************************)
TakeFrame(take) ==
    <<take.originalBlob, take.processedBlob, take.finalBlob, take.isProcessing,
      take.selectedEffect, take.selectedTrack, take.customTrackFile, take.mixVolume,
      take.appliedSfx, take.appliedVocalDrops>>

C24_OtherTakesUnchanged ==
    [][\A p \in LiveTakes :
          (/\ HasTake(generationResults', p[1], p[2])
           /\ generationResults'[p[1]].takes[p[2]].originalBlob = LiveTake(p).originalBlob
           /\ TakeFrame(generationResults'[p[1]].takes[p[2]]) # TakeFrame(LiveTake(p)))
          => \/ /\ runCount' = runCount + 1
                /\ \E run \in runs' \ runs : run.voice = LiveTake(p).originalBlob.voice
             \/ /\ Settles
                /\ lastSettled'.voice = LiveTake(p).originalBlob.voice]_vars

(***************************************************************************)
(* Claim C25: whenever a take is not processing, its processed and final   *)
(* buffers are the result of the pipeline on its current configuration: a  *)
(* fresh take has the default configuration and processed = final =        *)
(* source; a take that was re-configured has a processed buffer with its   *)
(* selected effect and a final buffer mixed from that buffer, its selected *)
(* track at its volume and its SFX other than None.                        *)
(***************************************************************************)
ExpectedTrack(take) ==
    IF take.selectedTrack = "None" THEN NoMix.track
    ELSE [present |-> TRUE, source |-> take.selectedTrack, volume |-> take.mixVolume]

C25_BuffersMatchConfig ==
    \A p \in LiveTakes :
        LET take == LiveTake(p)
        IN ~take.isProcessing =>
              IF take.requested = 0
              THEN take = NewTake(take.originalBlob)
              ELSE /\ take.processedBlob.voice = take.originalBlob.voice
                   /\ take.processedBlob.effect = take.selectedEffect
                   /\ take.finalBlob.voice = take.originalBlob.voice
                   /\ take.finalBlob.effect = take.selectedEffect
                   /\ take.finalBlob.mix =
                         [mixed |-> TRUE, track |-> ExpectedTrack(take),
                          sfx |-> SfxToResolve(take), drops |-> <<>>]

(***************************************************************************)
(* Claim C27: a new run of a take can be started only while the take's     *)
(* isProcessing flag is false, so that at most one pipeline run per take   *)
(* is in flight.  The controls are disabled by the flag, but the flag of a *)
(* take is also cleared by the end of a run of the take that was at its    *)
(* indices before.                                                         *)
(***************************************************************************)
RunsOf(take) == {run \in runs : run.voice = take.originalBlob.voice}

C27_OneRunPerTake ==
    \A p \in LiveTakes : Cardinality(RunsOf(LiveTake(p))) <= 1

(***************************************************************************)
(* Claim C26: every updateTakeState call eventually sets its take's        *)
(* isProcessing flag back to false, whatever else happens meanwhile, a new *)
(* generation included.  Stated on the step in which the call ends: the    *)
(* call ends without an exception, and if its take is in the result set    *)
(* the take is no longer processing.  A call that ends while the result    *)
(* set has no take at its indices throws inside the state updater.         *)
(***************************************************************************)
C26_CallEndsWithFlagCleared ==
    [][Settles =>
          /\ ~crashed'
          /\ \A ri \in 1..MaxScripts, ti \in 1..MaxTakes :
                (/\ HasTake(generationResults', ri, ti)
                 /\ generationResults'[ri].takes[ti].originalBlob.voice = lastSettled'.voice)
                => ~generationResults'[ri].takes[ti].isProcessing]_vars

(***************************************************************************)
(* The application with MaxScripts scripts of one take each, and the runs  *)
(* of the take at [0][0]                                                   *)
(***************************************************************************)
NextGenerate ==
    \/ GenerateClick(MaxScripts, 1)
    \/ SweeperResolved
    \/ SweeperRejected
    \/ UpdateTakeState(1, 1)
    \/ \E run \in runs : EffectSettled(run)
    \/ \E run \in runs : TrackSettled(run)
    \/ \E run \in runs : SfxSettled(run)
    \/ \E run \in runs : MixSettled(run)

SpecGenerate == Init /\ [][NextGenerate]_vars

(***************************************************************************)
(* Claim C30: handleGenerateClick generates the scripts in order, one at a *)
(* time.  While it runs the result set holds, in order, the takes of the   *)
(* scripts before the current one, isLoading is set and the progress text  *)
(* names the current script.  A step of it either appends the takes of the *)
(* current script and goes on to the next one (or finishes after the       *)
(* last), or, on a failure, sets the error, keeps the result set and       *)
(* generates no later script.  When it has finished isLoading is false and *)
(* the progress text is null.                                              *)
(***************************************************************************)
GenerationInOrder ==
    /\ \A ri \in 1..Len(generationResults) :
          \A ti \in 1..Len(generationResults[ri].takes) :
              generationResults[ri].takes[ti].originalBlob = GeneratedBlob(epoch, ri, ti)
    /\ gen.pc = "generating" =>
          /\ Len(generationResults) = gen.i - 1
          /\ isLoading
          /\ generationProgress = Progress(gen.i, gen.n)
    /\ gen.pc = "idle" => (~isLoading /\ generationProgress = "null")

C30_ScriptsInOrderFailureStops ==
    [][/\ (gen.pc = "generating" /\ gen' # gen) =>
             \/ /\ Len(generationResults') = gen.i
                /\ SubSeq(generationResults', 1, gen.i - 1) = generationResults
                /\ generationResults'[gen.i].takes =
                      [ti \in 1..gen.numberOfTakes |->
                          NewTake(GeneratedBlob(epoch, gen.i, ti))]
                /\ error' = error
                /\ IF gen.i < gen.n
                   THEN /\ gen' = [gen EXCEPT !.i = gen.i + 1]
                        /\ isLoading'
                        /\ generationProgress' = Progress(gen.i + 1, gen.n)
                   ELSE /\ gen' = NoGen
                        /\ ~isLoading'
                        /\ generationProgress' = "null"
             \/ /\ error' = ErrGenerate
                /\ generationResults' = generationResults
                /\ gen' = NoGen
                /\ ~isLoading'
                /\ generationProgress' = "null"
       /\ GenerationInOrder']_vars

\* the generation of the last script failed: the takes of the scripts before
\* it are in the result set, the error is set and nothing is loading
C30_Witness ==
    /\ epoch > 0
    /\ gen = NoGen
    /\ error = ErrGenerate
    /\ Len(generationResults) = MaxScripts - 1
    /\ Len(generationResults) > 0
    /\ generationResults[1].takes[1].originalBlob = GeneratedBlob(epoch, 1, 1)
    /\ ~isLoading
    /\ generationProgress = "null"

====
